---- MODULE Spec2Model ----
(***************************************************************************)
(* Usage-metrics accounting and reporting of the Multi-Task Text Utility:  *)
(* metrics/tracker.py (MetricsTracker and its process-wide instance        *)
(* metrics_tracker) and reports/generator.py (ReportGenerator).            *)
(*                                                                         *)
(* Units.  The wall clock `now` counts ticks, TicksPerMs ticks to the      *)
(* millisecond.  latency_seconds is held in milliseconds (round(x, 3)      *)
(* leaves a whole number of them), estimated_cost_usd and every cost       *)
(* total in micro-dollars (round(x, 6)), the PRICING rates in              *)
(* nano-dollars per token (0.0025 USD per 1000 tokens = 2500 n$ a token).  *)
(* Text is a sequence of pieces: a piece is "," or "\n" or a run of        *)
(* characters that holds neither.                                          *)
(*                                                                         *)
(* Execution model.  The tracker is one shared object and takes no lock.   *)
(* Under Spec its callers run in parallel (section 5 of the specification: *)
(* "request-parallel"), so a step is one access to the shared object: a    *)
(* call of start, a call of create_metrics, and each pass                   *)
(* get_summary_statistics makes over the history.                          *)
(* create_metrics reads start_time and appends; what lies between touches  *)
(* nothing shared, and the step is taken at the append.  Under SpecSeq one *)
(* caller runs the methods one after the other, as the unit tests do, and  *)
(* a step is one whole method call.                                        *)
(***************************************************************************)
EXTENDS Integers, Sequences, FiniteSets, TLC

VARIABLES
    now,              \* time.time() / datetime.now(), in ticks
    start_time,       \* MetricsTracker.start_time: <<>> is None, <<t>> a time
    metrics_history,  \* MetricsTracker.metrics_history
    pc,               \* pc[r]: where request r stands
    own_start,        \* own_start[r]: <<>>, or <<t>> the time of r's own start() (history variable)
    call,             \* call[r]: <<>>, or <<a>> the arguments r passed to create_metrics
    metrics,          \* metrics[r]: <<>>, or <<m>> the record create_metrics returned to r
    s_pc,             \* where the caller of get_summary_statistics stands
    s_loc,            \* its locals total_requests, total_cost, total_tokens, latency sum
    s_seen,           \* the history length each of its passes saw (history variable)
    summary,          \* what that call of get_summary_statistics returned
    op,               \* SpecSeq: the method the sequential caller called last
    ret,              \* SpecSeq: what it returned
    dir_exists,       \* storage: the directory ReportGenerator.output_dir names exists
    files,            \* storage: the files, by the place they are at, with their content
    overwrote         \* the call just made wrote over a file of another content (history variable)

vars == <<now, start_time, metrics_history, pc, own_start, call, metrics,
          s_pc, s_loc, s_seen, summary, op, ret, dir_exists, files, overwrote>>

----------------------------------------------------------------------------
\* Bounds of the model.

NumRequests == 2
MaxTime == 2
TicksPerMs == 3
MaxFiles == 1
MaxRecords == 1

\* Under SpecFloat: the records of a history.
MaxFloatRecords == 3

Requests == 1..NumRequests

----------------------------------------------------------------------------
\* Arithmetic.

\* floor(n / d) for d > 0 and any integer n.
FloorDiv(n, d) == IF n >= 0 THEN n \div d ELSE -((-n + d - 1) \div d)

\* round(n / d) to a whole number, d > 0: the nearest one; at an exact tie the
\* even one (Python rounds the binary float, which at a decimal tie lies on
\* either side; no formula below depends on the side taken at a tie).
RoundDiv(n, d) ==
    LET q == FloorDiv(n, d)
        r == n - q * d
    IN  IF 2 * r < d THEN q
        ELSE IF 2 * r > d THEN q + 1
        ELSE IF q % 2 = 0 THEN q ELSE q + 1

RECURSIVE SumOver(_, _)
\* sum(m.<field> for m in s)
SumOver(s, field) ==
    IF s = <<>> THEN 0 ELSE s[1][field] + SumOver(Tail(s), field)

----------------------------------------------------------------------------
\* config/settings.py

\* Settings.PRICING, in nano-dollars per token.
PRICING ==
    [m \in {"gpt-4o", "gpt-4o-mini", "gpt-3.5-turbo"} |->
        CASE m = "gpt-4o"        -> [input |-> 2500, output |-> 10000]
          [] m = "gpt-4o-mini"   -> [input |-> 150,  output |-> 600]
          [] m = "gpt-3.5-turbo" -> [input |-> 500,  output |-> 1500]]

----------------------------------------------------------------------------
\* The arguments callers pass to create_metrics.

Args(model, input_tokens, output_tokens, total_tokens, finish_reason) ==
    [model |-> model, input_tokens |-> input_tokens, output_tokens |-> output_tokens,
     total_tokens |-> total_tokens, finish_reason |-> finish_reason]

\* Under Spec: the call of tests/test_metrics.py, and one of a model that has no price.
Calls ==
    { Args("gpt-4o-mini", 100, 50, 150, "stop"),
      Args("unknown-model", 8, 1, 9, "length") }

\* Under SpecSeq: the calls of test_calculate_cost_gpt4o and _gpt4o_mini, a cost
\* that is rounded up (1.8 micro-dollars), a negative count with a total that
\* is not the sum (-0.6 micro-dollars), two calls of a model that has no price,
\* and finish reasons that hold the separators of the tabular export.  No cost
\* is at a tie.
SeqCalls ==
    { Args("gpt-4o",        1000, 500, 1500, "stop"),
      Args("gpt-4o-mini",   1000, 500, 1500, "stop"),
      Args("gpt-4o-mini",   8,    1,   9,    "stop"),
      Args("gpt-4o-mini",   -4,   0,   5,    "stop"),
      Args("unknown-model", 1000, 500, 1500, "stop"),
      Args("unknown-model", 8,    1,   9,    "a,b"),
      Args("gpt-4o",        8,    1,   9,    "a\nb") }

----------------------------------------------------------------------------
\* metrics/tracker.py

\* MetricsTracker.calculate_latency, in milliseconds.
calculate_latency(st, t) ==
    IF st = <<>> THEN 0 ELSE RoundDiv(t - st[1], TicksPerMs)

\* Mutant of line 60: the sum cut to 6 decimals, not rounded.
calculate_cost_truncated(model, input_tokens, output_tokens) ==
    IF model \notin DOMAIN PRICING THEN 0
    ELSE FloorDiv(input_tokens * PRICING[model].input
                    + output_tokens * PRICING[model].output, 1000)

\* MetricsTracker.calculate_cost, in micro-dollars.
calculate_cost(model, input_tokens, output_tokens) ==
    IF model \notin DOMAIN PRICING THEN 0
    ELSE RoundDiv(input_tokens * PRICING[model].input
                    + output_tokens * PRICING[model].output, 1000)

DigitChars == <<"0", "1", "2", "3", "4", "5", "6", "7", "8", "9">>

RECURSIVE Digits(_)
\* The decimal digits of n >= 0, as text.
Digits(n) ==
    IF n < 10 THEN <<DigitChars[n + 1]>>
    ELSE Append(Digits(n \div 10), DigitChars[(n % 10) + 1])

RECURSIVE FromDigits(_)
\* The number n >= 0 whose decimal digits d is: int(d).
FromDigits(d) ==
    IF d = <<>> THEN 0
    ELSE 10 * FromDigits(SubSeq(d, 1, Len(d) - 1))
           + (CHOOSE v \in 0..9 : DigitChars[v + 1] = d[Len(d)])

\* datetime.now().isoformat(): the clock reading as text.
isoformat(t) == <<"T">> \o Digits(t)

\* Mutant of line 89: total_tokens computed from the two counts, not stored as passed.
RequestMetricsSummedTotal(a, st, t) ==
    [latency_seconds    |-> calculate_latency(st, t),
     input_tokens       |-> a.input_tokens,
     output_tokens      |-> a.output_tokens,
     total_tokens       |-> a.input_tokens + a.output_tokens,
     estimated_cost_usd |-> calculate_cost(a.model, a.input_tokens, a.output_tokens),
     finish_reason      |-> a.finish_reason,
     timestamp          |-> isoformat(t),
     model              |-> a.model]

\* The RequestMetrics object create_metrics builds (lines 83-95).
RequestMetrics(a, st, t) ==
    [latency_seconds    |-> calculate_latency(st, t),
     input_tokens       |-> a.input_tokens,
     output_tokens      |-> a.output_tokens,
     total_tokens       |-> a.total_tokens,
     estimated_cost_usd |-> calculate_cost(a.model, a.input_tokens, a.output_tokens),
     finish_reason      |-> a.finish_reason,
     timestamp          |-> isoformat(t),
     model              |-> a.model]

\* Mutants of the append: `self.metrics_history = [metrics]`, and an insert at the front.
AppendMetricsOverwrite(history, m) == <<m>>

AppendMetricsAtFront(history, m) == <<m>> \o history

\* self.metrics_history.append(metrics)
AppendMetrics(history, m) == Append(history, m)

\* Mutant of line 129: the model of the first record only.
ModelsOfFirst(history) == { history[1].model }

\* list(set(m.model for m in history))
ModelsOf(history) == { history[i].model : i \in 1..Len(history) }

\* The dictionary of lines 124-130, from the locals of lines 119-122.
SummaryDict(loc, history) ==
    [total_requests          |-> loc.total_requests,
     total_cost_usd          |-> RoundDiv(loc.total_cost, 1),
     total_tokens            |-> loc.total_tokens,
     average_latency_seconds |-> RoundDiv(loc.latency_sum, loc.total_requests),
     models_used             |-> ModelsOf(history)]

\* The empty dictionary {}.
EmptyDict == [k \in {} |-> 0]

\* None
None == <<>>

Init ==
    /\ now = 0
    /\ start_time = None
    /\ metrics_history = <<>>
    /\ pc = [r \in Requests |-> "idle"]
    /\ own_start = [r \in Requests |-> <<>>]
    /\ call = [r \in Requests |-> <<>>]
    /\ metrics = [r \in Requests |-> <<>>]
    /\ s_pc = "idle"
    /\ s_loc = EmptyDict
    /\ s_seen = <<>>
    /\ summary = EmptyDict
    /\ op = "none"
    /\ ret = None
    /\ dir_exists = TRUE
    /\ files = EmptyDict
    /\ overwrote = FALSE

\* The wall clock advances.
Tick ==
    /\ now < MaxTime
    /\ now' = now + 1
    /\ UNCHANGED <<start_time, metrics_history, pc, own_start, call, metrics,
                   s_pc, s_loc, s_seen, summary, op, ret, dir_exists, files, overwrote>>

----------------------------------------------------------------------------
\* Requests in parallel on the shared tracker (Spec).  Requests are
\* interchangeable and are numbered in the order of their first call.

FirstCallInOrder(r) == \A q \in 1..(r - 1) : pc[q] # "idle"

\* metrics_tracker.start(), called by request r.
Start(r) ==
    /\ pc[r] = "idle"
    /\ FirstCallInOrder(r)
    /\ start_time' = <<now>>
    /\ own_start' = [own_start EXCEPT ![r] = <<now>>]
    /\ pc' = [pc EXCEPT ![r] = "started"]
    /\ UNCHANGED <<now, metrics_history, call, metrics,
                   s_pc, s_loc, s_seen, summary, op, ret, dir_exists, files, overwrote>>

\* metrics_tracker.create_metrics(...), called by request r, which has started
\* a timer or has not.
CreateMetrics(r, a) ==
    /\ pc[r] \in {"idle", "started"}
    /\ pc[r] = "idle" => FirstCallInOrder(r)
    /\ LET m == RequestMetrics(a, start_time, now)
       IN  /\ metrics_history' = AppendMetrics(metrics_history, m)
           /\ metrics' = [metrics EXCEPT ![r] = <<m>>]
    /\ call' = [call EXCEPT ![r] = <<a>>]
    /\ pc' = [pc EXCEPT ![r] = "done"]
    /\ UNCHANGED <<now, start_time, own_start, s_pc, s_loc, s_seen, summary, op, ret,
                   dir_exists, files, overwrote>>

\* Mutant of line 116: no early return on an empty history.
SummaryTestNoReturn ==
    /\ s_pc = "idle"
    /\ s_seen' = <<Len(metrics_history)>>
    /\ s_pc' = "len"
    /\ UNCHANGED <<now, start_time, metrics_history, pc, own_start, call, metrics,
                   s_loc, summary, op, ret, dir_exists, files, overwrote>>

\* get_summary_statistics, line 116: `if not self.metrics_history: return {}`.
SummaryTest ==
    /\ s_pc = "idle"
    /\ s_seen' = <<Len(metrics_history)>>
    /\ IF metrics_history = <<>>
         THEN /\ summary' = EmptyDict
              /\ s_pc' = "done"
         ELSE /\ summary' = summary
              /\ s_pc' = "len"
    /\ UNCHANGED <<now, start_time, metrics_history, pc, own_start, call, metrics,
                   s_loc, op, ret, dir_exists, files, overwrote>>

\* line 119: total_requests = len(self.metrics_history)
SummaryLen ==
    /\ s_pc = "len"
    /\ s_loc' = [total_requests |-> Len(metrics_history)]
    /\ s_seen' = Append(s_seen, Len(metrics_history))
    /\ s_pc' = "cost"
    /\ UNCHANGED <<now, start_time, metrics_history, pc, own_start, call, metrics,
                   summary, op, ret, dir_exists, files, overwrote>>

\* line 120: total_cost = sum(m.estimated_cost_usd for m in self.metrics_history)
SummaryCost ==
    /\ s_pc = "cost"
    /\ s_loc' = [total_requests |-> s_loc.total_requests,
                 total_cost     |-> SumOver(metrics_history, "estimated_cost_usd")]
    /\ s_seen' = Append(s_seen, Len(metrics_history))
    /\ s_pc' = "tokens"
    /\ UNCHANGED <<now, start_time, metrics_history, pc, own_start, call, metrics,
                   summary, op, ret, dir_exists, files, overwrote>>

\* line 121: total_tokens = sum(m.total_tokens for m in self.metrics_history)
SummaryTokens ==
    /\ s_pc = "tokens"
    /\ s_loc' = [total_requests |-> s_loc.total_requests,
                 total_cost     |-> s_loc.total_cost,
                 total_tokens   |-> SumOver(metrics_history, "total_tokens")]
    /\ s_seen' = Append(s_seen, Len(metrics_history))
    /\ s_pc' = "latency"
    /\ UNCHANGED <<now, start_time, metrics_history, pc, own_start, call, metrics,
                   summary, op, ret, dir_exists, files, overwrote>>

\* line 122: the sum of the latencies; its division by total_requests and the
\* rounding of line 128 are taken together in SummaryDict.
SummaryLatency ==
    /\ s_pc = "latency"
    /\ s_loc' = [total_requests |-> s_loc.total_requests,
                 total_cost     |-> s_loc.total_cost,
                 total_tokens   |-> s_loc.total_tokens,
                 latency_sum    |-> SumOver(metrics_history, "latency_seconds")]
    /\ s_seen' = Append(s_seen, Len(metrics_history))
    /\ s_pc' = "return"
    /\ UNCHANGED <<now, start_time, metrics_history, pc, own_start, call, metrics,
                   summary, op, ret, dir_exists, files, overwrote>>

\* lines 124-130: the return, with its own pass for models_used.
SummaryReturn ==
    /\ s_pc = "return"
    /\ summary' = SummaryDict(s_loc, metrics_history)
    /\ s_seen' = Append(s_seen, Len(metrics_history))
    /\ s_pc' = "done"
    /\ UNCHANGED <<now, start_time, metrics_history, pc, own_start, call, metrics,
                   s_loc, op, ret, dir_exists, files, overwrote>>

Next ==
    \/ Tick
    \/ \E r \in Requests : Start(r)
    \/ \E r \in Requests, a \in Calls : CreateMetrics(r, a)
    \/ SummaryTest
    \/ SummaryLen
    \/ SummaryCost
    \/ SummaryTokens
    \/ SummaryLatency
    \/ SummaryReturn

Spec == Init /\ [][Next]_vars

\* get_summary_statistics as one call on a history nothing else touches.
get_summary_statistics(history) ==
    IF history = <<>> THEN EmptyDict
    ELSE SummaryDict([total_requests |-> Len(history),
                      total_cost     |-> SumOver(history, "estimated_cost_usd"),
                      total_tokens   |-> SumOver(history, "total_tokens"),
                      latency_sum    |-> SumOver(history, "latency_seconds")],
                     history)

----------------------------------------------------------------------------
\* reports/generator.py

RECURSIVE GroupByModelLast(_, _)
\* Mutant of lines 51-53: `=` for `+=`, each entry holds its last record only.
GroupByModelLast(history, model_stats) ==
    IF history = <<>> THEN model_stats
    ELSE LET metric == history[1]
             new    == [requests     |-> 1,
                        total_cost   |-> metric.estimated_cost_usd,
                        total_tokens |-> metric.total_tokens]
         IN  GroupByModelLast(Tail(history),
                              [m \in DOMAIN model_stats \cup {metric.model} |->
                                 IF m = metric.model THEN new ELSE model_stats[m]])

RECURSIVE GroupByModelInputTokens(_, _)
\* Mutant of line 53: the entry adds up input_tokens, not total_tokens.
GroupByModelInputTokens(history, model_stats) ==
    IF history = <<>> THEN model_stats
    ELSE LET metric == history[1]
             seen   == DOMAIN model_stats
             fresh  == [requests |-> 0, total_cost |-> 0, total_tokens |-> 0]
             stats  == IF metric.model \notin seen
                         THEN [m \in seen \cup {metric.model} |->
                                 IF m = metric.model THEN fresh ELSE model_stats[m]]
                         ELSE model_stats
             old    == stats[metric.model]
             new    == [requests     |-> old.requests + 1,
                        total_cost   |-> old.total_cost + metric.estimated_cost_usd,
                        total_tokens |-> old.total_tokens + metric.input_tokens]
         IN  GroupByModelInputTokens(Tail(history),
                          [m \in DOMAIN stats |-> IF m = metric.model THEN new ELSE stats[m]])

RECURSIVE GroupByModel(_, _)
\* The loop of lines 44-53 over the rest of the history.
GroupByModel(history, model_stats) ==
    IF history = <<>> THEN model_stats
    ELSE LET metric == history[1]
             seen   == DOMAIN model_stats
             fresh  == [requests |-> 0, total_cost |-> 0, total_tokens |-> 0]
             stats  == IF metric.model \notin seen
                         THEN [m \in seen \cup {metric.model} |->
                                 IF m = metric.model THEN fresh ELSE model_stats[m]]
                         ELSE model_stats
             old    == stats[metric.model]
             new    == [requests     |-> old.requests + 1,
                        total_cost   |-> old.total_cost + metric.estimated_cost_usd,
                        total_tokens |-> old.total_tokens + metric.total_tokens]
         IN  GroupByModel(Tail(history),
                          [m \in DOMAIN stats |-> IF m = metric.model THEN new ELSE stats[m]])

\* Lines 35-67: the report of a history that is not empty.
SummaryReport(metrics_history_, t) ==
    LET total_requests == Len(metrics_history_)
        total_cost     == SumOver(metrics_history_, "estimated_cost_usd")
        latency_sum    == SumOver(metrics_history_, "latency_seconds")
    IN  [summary |->
           [total_requests           |-> total_requests,
            total_cost_usd           |-> RoundDiv(total_cost, 1),
            total_tokens             |-> SumOver(metrics_history_, "total_tokens"),
            total_input_tokens       |-> SumOver(metrics_history_, "input_tokens"),
            total_output_tokens      |-> SumOver(metrics_history_, "output_tokens"),
            average_latency_seconds  |-> RoundDiv(latency_sum, total_requests),
            average_cost_per_request |-> RoundDiv(total_cost, total_requests)],
         model_breakdown |-> GroupByModel(metrics_history_, EmptyDict),
         generated_at    |-> isoformat(t)]

\* Mutant of lines 29-33: {} for an empty history, as get_summary_statistics has it.
generate_summary_report_empty_dict(metrics_history_, t) ==
    IF metrics_history_ = <<>> THEN EmptyDict ELSE SummaryReport(metrics_history_, t)

\* ReportGenerator.generate_summary_report, called at time t.
generate_summary_report(metrics_history_, t) ==
    IF metrics_history_ = <<>>
      THEN [error        |-> "No metrics data available",
            generated_at |-> isoformat(t)]
      ELSE SummaryReport(metrics_history_, t)

\* A str as text: the strings that hold a separator, piece by piece.
Pieces(s) ==
    CASE s = "a,b"  -> <<"a", ",", "b">>
      [] s = "a\nb" -> <<"a", "\n", "b">>
      [] OTHER      -> <<s>>

\* str(n) of an int.
StrInt(n) == IF n < 0 THEN <<"-">> \o Digits(-n) ELSE Digits(n)

RECURSIVE StripZeros(_, _)
\* <<a, e>> with a * 10^-e = n * 10^-e0 and a not a multiple of 10 (n > 0).
StripZeros(n, e) == IF n % 10 = 0 THEN StripZeros(n \div 10, e - 1) ELSE <<n, e>>

Zeros(k) == [i \in 1..k |-> "0"]

\* str(x) of the float x = n * 10^-e, a float that round(., e) returned: the
\* shortest digits that give x back, in exponent notation for |x| < 0.0001.
StrFloat(n, e) ==
    IF n = 0 THEN <<"0", ".", "0">>
    ELSE LET ae    == StripZeros(IF n < 0 THEN -n ELSE n, e)
             d     == Digits(ae[1])
             k     == Len(d)
             decpt == k - ae[2]
             x     == decpt - 1
             body  ==
               IF decpt > 16 \/ decpt < -3
                 THEN <<d[1]>> \o (IF k > 1 THEN <<".">> \o SubSeq(d, 2, k) ELSE <<>>)
                        \o <<"e", IF x < 0 THEN "-" ELSE "+">>
                        \o (IF (IF x < 0 THEN -x ELSE x) < 10 THEN <<"0">> ELSE <<>>)
                        \o Digits(IF x < 0 THEN -x ELSE x)
               ELSE IF decpt <= 0 THEN <<"0", ".">> \o Zeros(-decpt) \o d
               ELSE IF decpt >= k THEN d \o Zeros(decpt - k) \o <<".", "0">>
               ELSE SubSeq(d, 1, decpt) \o <<".">> \o SubSeq(d, decpt + 1, k)
         IN  (IF n < 0 THEN <<"-">> ELSE <<>>) \o body

RECURSIVE Join(_, _)
\* sep.join(texts)
Join(texts, sep) ==
    IF texts = <<>> THEN <<>>
    ELSE IF Len(texts) = 1 THEN texts[1]
    ELSE texts[1] \o <<sep>> \o Join(Tail(texts), sep)

\* The headers of lines 104-107.
headers ==
    << <<"timestamp">>, <<"model">>, <<"input_tokens">>, <<"output_tokens">>,
       <<"total_tokens">>, <<"latency_seconds">>, <<"estimated_cost_usd">>,
       <<"finish_reason">> >>

\* The fields of lines 113-120.
CsvFields(metric) ==
    << metric.timestamp,
       Pieces(metric.model),
       StrInt(metric.input_tokens),
       StrInt(metric.output_tokens),
       StrInt(metric.total_tokens),
       StrFloat(metric.latency_seconds, 3),
       StrFloat(metric.estimated_cost_usd, 6),
       Pieces(metric.finish_reason) >>

\* ReportGenerator.generate_csv_report
generate_csv_report(metrics_history_) ==
    IF metrics_history_ = <<>> THEN <<"No data available">>
    ELSE Join(<<Join(headers, ",")>>
                \o [i \in 1..Len(metrics_history_) |->
                      Join(CsvFields(metrics_history_[i]), ",")],
              "\n")

----------------------------------------------------------------------------
\* One caller, one call after the other (SpecSeq).

\* tracker.start()
CallStart ==
    /\ start_time' = <<now>>
    /\ overwrote' = FALSE
    /\ op' = "start"
    /\ ret' = None
    /\ UNCHANGED <<now, metrics_history, pc, own_start, call, metrics,
                   s_pc, s_loc, s_seen, summary, dir_exists, files>>

\* tracker.create_metrics(...)
CallCreateMetrics(a) ==
    /\ LET m == RequestMetrics(a, start_time, now)
       IN  /\ metrics_history' = AppendMetrics(metrics_history, m)
           /\ ret' = m
    /\ overwrote' = FALSE
    /\ op' = "create_metrics"
    /\ UNCHANGED <<now, start_time, pc, own_start, call, metrics,
                   s_pc, s_loc, s_seen, summary, dir_exists, files>>

\* tracker.get_summary_statistics()
CallGetSummaryStatistics ==
    /\ overwrote' = FALSE
    /\ op' = "get_summary_statistics"
    /\ ret' = get_summary_statistics(metrics_history)
    /\ UNCHANGED <<now, start_time, metrics_history, pc, own_start, call, metrics,
                   s_pc, s_loc, s_seen, summary, dir_exists, files>>

\* report_generator.generate_summary_report(tracker.metrics_history)
CallGenerateSummaryReport ==
    /\ overwrote' = FALSE
    /\ op' = "generate_summary_report"
    /\ ret' = generate_summary_report(metrics_history, now)
    /\ UNCHANGED <<now, start_time, metrics_history, pc, own_start, call, metrics,
                   s_pc, s_loc, s_seen, summary, dir_exists, files>>

\* report_generator.generate_csv_report(tracker.metrics_history)
CallGenerateCsvReport ==
    /\ overwrote' = FALSE
    /\ op' = "generate_csv_report"
    /\ ret' = generate_csv_report(metrics_history)
    /\ UNCHANGED <<now, start_time, metrics_history, pc, own_start, call, metrics,
                   s_pc, s_loc, s_seen, summary, dir_exists, files>>

NextSeq ==
    \/ Tick
    \/ CallStart
    \/ \E a \in SeqCalls : Len(metrics_history) < NumRequests /\ CallCreateMetrics(a)
    \/ CallGetSummaryStatistics
    \/ CallGenerateSummaryReport
    \/ CallGenerateCsvReport

SpecSeq == Init /\ [][NextSeq]_vars

----------------------------------------------------------------------------
\* reports/generator.py: save_report and save_csv_report, and the storage
\* they write to.  A path is a sequence of components and a component a text;
\* the component "/" stands first in an absolute path.

Name(s) == <<s>>

\* ReportGenerator.output_dir, as the global instance of line 150 has it.
output_dir == <<Name("reports"), Name("output")>>

\* The filename arguments of the callers: none, a name with a
\* parent-directory component, and an absolute name.
Filenames ==
    { None,
      <<Name(".."), Name("r")>>,
      <<Name("/"), Name("tmp"), Name("r")>> }

\* One second of the clock, in ticks.
TicksPerSecond == 1000 * TicksPerMs

\* datetime.now().strftime("%Y%m%d_%H%M%S"): the clock reading, to the second.
strftime(t) == Digits(t \div TicksPerSecond)

\* Path.__truediv__: an absolute right-hand side replaces the left-hand side.
PathJoin(dir, filename) ==
    IF filename[1] = Name("/") THEN filename ELSE dir \o filename

\* The directories of the storage: the working directory (the empty path),
\* reports, / and /tmp, and output_dir if it exists.
DirExists(d) ==
    \/ d \in { <<>>, <<Name("reports")>>, <<Name("/")>>, <<Name("/"), Name("tmp")>> }
    \/ d = output_dir /\ dir_exists

RECURSIVE Walk(_, _)
\* The operating system follows path from the directory cur: [ok |-> every
\* directory on the way exists, at |-> the place of the file].
Walk(path, cur) ==
    IF Len(path) = 1 THEN [ok |-> TRUE, at |-> cur \o path]
    ELSE LET next == IF path[1] = Name("..")
                       THEN SubSeq(cur, 1, Len(cur) - 1)
                       ELSE Append(cur, path[1])
         IN  IF DirExists(next) THEN Walk(Tail(path), next)
             ELSE [ok |-> FALSE, at |-> <<>>]

\* What a persist call returns: the path, or the exception it raised.
Returned(filepath) == [path |-> filepath]

Raised(exception) == [raised |-> exception]

\* What the storage does to a write: nothing wrong, a refusal to open the
\* file, or a failure after the file was opened (and so created or emptied).
Faults == {"none", "open", "write"}

\* The storage has room for the file a walk leads to: the walk fails, the file
\* is there already, or there are fewer than MaxFiles files.
Room(w) == ~w.ok \/ w.at \in DOMAIN files \/ Cardinality(DOMAIN files) < MaxFiles

\* Mutant of lines 86 and 144: the file is opened with 'a', the content is
\* put after what the file holds.
WriteFileAppend(filepath, content, fault) ==
    LET w   == Walk(filepath, <<>>)
        old == IF w.ok /\ w.at \in DOMAIN files THEN files[w.at] ELSE <<>>
    IN  IF ~w.ok
          THEN [files |-> files, ret |-> Raised("FileNotFoundError"), overwrote |-> FALSE]
        ELSE IF fault = "open"
          THEN [files |-> files, ret |-> Raised("OSError"), overwrote |-> FALSE]
        ELSE IF fault = "write"
          THEN [files     |-> (w.at :> old) @@ files,
                ret       |-> Raised("OSError"),
                overwrote |-> FALSE]
        ELSE [files     |-> (w.at :> old \o content) @@ files,
              ret       |-> Returned(filepath),
              overwrote |-> w.at \in DOMAIN files /\ files[w.at] # content]

\* Mutant of lines 86-89 and 144-147: an exception of the write is caught and
\* the path returned all the same.
WriteFileSwallowing(filepath, content, fault) ==
    LET w == Walk(filepath, <<>>)
    IN  IF ~w.ok \/ fault = "open"
          THEN [files |-> files, ret |-> Returned(filepath), overwrote |-> FALSE]
        ELSE IF fault = "write"
          THEN [files     |-> (w.at :> <<>>) @@ files,
                ret       |-> Returned(filepath),
                overwrote |-> FALSE]
        ELSE [files     |-> (w.at :> content) @@ files,
              ret       |-> Returned(filepath),
              overwrote |-> w.at \in DOMAIN files /\ files[w.at] # content]

\* open(filepath, 'w') and the write, lines 86-87 and 144-145: the new files,
\* and what is returned or raised.
WriteFile(filepath, content, fault) ==
    LET w == Walk(filepath, <<>>)
    IN  IF ~w.ok
          THEN [files |-> files, ret |-> Raised("FileNotFoundError"), overwrote |-> FALSE]
        ELSE IF fault = "open"
          THEN [files |-> files, ret |-> Raised("OSError"), overwrote |-> FALSE]
        ELSE IF fault = "write"
          THEN [files     |-> (w.at :> <<>>) @@ files,
                ret       |-> Raised("OSError"),
                overwrote |-> FALSE]
        ELSE [files     |-> (w.at :> content) @@ files,
              ret       |-> Returned(filepath),
              overwrote |-> w.at \in DOMAIN files /\ files[w.at] # content]

\* json.dump(report_data, f, indent=2): the text of a report.  A dict keeps
\* its keys in the order they were put in, so the keys of a report are those of
\* lines 55-67, in that order, and the keys of model_breakdown the models of
\* the history in the order they first occur.

RECURSIVE KeyOrder(_, _)
\* The models of history that are not in seen, each once, in history order.
KeyOrder(history, seen) ==
    IF history = <<>> THEN <<>>
    ELSE IF history[1].model \in seen THEN KeyOrder(Tail(history), seen)
    ELSE <<history[1].model>> \o KeyOrder(Tail(history), seen \cup {history[1].model})

\* The text of a str between quotes; a line break in it is written \n.
JsonStr(text) ==
    <<"\"">> \o [i \in 1..Len(text) |-> IF text[i] = "\n" THEN "\\n" ELSE text[i]]
      \o <<"\"">>

\* A line break and the indentation of a nesting depth.
Indent(depth) == <<"\n">> \o [i \in 1..depth |-> "  "]

RECURSIVE JsonItems(_, _)
JsonItems(items, depth) ==
    IF items = <<>> THEN <<>>
    ELSE Indent(depth) \o JsonStr(items[1][1]) \o <<":", " ">> \o items[1][2]
           \o (IF Len(items) > 1 THEN <<",">> ELSE <<>>)
           \o JsonItems(Tail(items), depth)

\* A dict of the items <<key, text of the value>>, written at a nesting depth.
JsonDict(items, depth) ==
    IF items = <<>> THEN <<"{", "}">>
    ELSE <<"{">> \o JsonItems(items, depth + 1) \o Indent(depth) \o <<"}">>

\* json.dump of a report whose model_breakdown has its keys in the order keys.
JsonDump(report_data, keys) ==
    IF "error" \in DOMAIN report_data
      THEN JsonDict(<< <<Name("error"), JsonStr(Pieces(report_data.error))>>,
                       <<Name("generated_at"), JsonStr(report_data.generated_at)>> >>, 0)
      ELSE LET su == report_data.summary
               mb == report_data.model_breakdown
               Entry(m) ==
                 JsonDict(<< <<Name("requests"), StrInt(mb[m].requests)>>,
                             <<Name("total_cost"), StrFloat(mb[m].total_cost, 6)>>,
                             <<Name("total_tokens"), StrInt(mb[m].total_tokens)>> >>, 2)
           IN  JsonDict(<<
                 <<Name("summary"), JsonDict(<<
                     <<Name("total_requests"), StrInt(su.total_requests)>>,
                     <<Name("total_cost_usd"), StrFloat(su.total_cost_usd, 6)>>,
                     <<Name("total_tokens"), StrInt(su.total_tokens)>>,
                     <<Name("total_input_tokens"), StrInt(su.total_input_tokens)>>,
                     <<Name("total_output_tokens"), StrInt(su.total_output_tokens)>>,
                     <<Name("average_latency_seconds"),
                       StrFloat(su.average_latency_seconds, 3)>>,
                     <<Name("average_cost_per_request"),
                       StrFloat(su.average_cost_per_request, 6)>> >>, 1)>>,
                 <<Name("model_breakdown"),
                   JsonDict([i \in 1..Len(keys) |-> <<Pieces(keys[i]), Entry(keys[i])>>], 1)>>,
                 <<Name("generated_at"), JsonStr(report_data.generated_at)>> >>, 0)

\* json.load: the value a JSON text stands for.  A dict is a function on its
\* keys, a str is [str |-> its text], a number is [float |-> whether it is
\* written with a fraction or an exponent, m |-> m, e |-> e] and stands for
\* m * 10^-e.  A parser returns <<value, index after it>>.

\* The str a text is the text of.
Unpieces(text) ==
    IF Len(text) = 1 THEN text[1]
    ELSE CHOOSE x \in {"a,b", "a\nb"} : Pieces(x) = text

RECURSIVE SkipSpace(_, _)
SkipSpace(text, i) ==
    IF i <= Len(text) /\ text[i] \in {" ", "  ", "\n"} THEN SkipSpace(text, i + 1) ELSE i

RECURSIVE StrEnd(_, _)
\* The index of the quote that closes the str whose content starts at i.
StrEnd(text, i) == IF text[i] = "\"" THEN i ELSE StrEnd(text, i + 1)

\* The str that starts with the quote at i.
ParseStr(text, i) ==
    LET j == StrEnd(text, i + 1)
    IN  << [k \in 1..(j - i - 1) |->
              IF text[i + k] = "\\n" THEN "\n" ELSE text[i + k]],
           j + 1 >>

RECURSIVE DigitsEnd(_, _)
\* The index after the digits that start at i.
DigitsEnd(text, i) ==
    IF i <= Len(text) /\ \E v \in 1..10 : DigitChars[v] = text[i]
      THEN DigitsEnd(text, i + 1) ELSE i

RECURSIVE Pow10(_)
Pow10(k) == IF k = 0 THEN 1 ELSE 10 * Pow10(k - 1)

\* The number that starts at i: sign, digits, fraction, exponent.
ParseNumber(text, i) ==
    LET neg   == text[i] = "-"
        i1    == IF neg THEN i + 1 ELSE i
        i2    == DigitsEnd(text, i1)
        frac  == i2 <= Len(text) /\ text[i2] = "."
        i3    == IF frac THEN DigitsEnd(text, i2 + 1) ELSE i2
        fd    == IF frac THEN SubSeq(text, i2 + 1, i3 - 1) ELSE <<>>
        exp   == i3 <= Len(text) /\ text[i3] = "e"
        eneg  == exp /\ text[i3 + 1] = "-"
        i4    == IF exp THEN DigitsEnd(text, i3 + 2) ELSE i3
        x     == IF exp THEN FromDigits(SubSeq(text, i3 + 2, i4 - 1)) ELSE 0
        m     == FromDigits(SubSeq(text, i1, i2 - 1) \o fd)
    IN  << [float |-> frac \/ exp,
            m     |-> IF neg THEN -m ELSE m,
            e     |-> Len(fd) + (IF eneg THEN x ELSE -x)],
           i4 >>

RECURSIVE ParseValue(_, _)
RECURSIVE ParseMembers(_, _, _)

\* The members of a dict from i on, put into dict, up to its closing brace.
ParseMembers(text, i, dict) ==
    LET k  == ParseStr(text, SkipSpace(text, i))
        i1 == SkipSpace(text, k[2])          \* at the colon
        v  == ParseValue(text, i1 + 1)
        i2 == SkipSpace(text, v[2])
        d  == (Unpieces(k[1]) :> v[1]) @@ dict
    IN  IF text[i2] = "," THEN ParseMembers(text, i2 + 1, d) ELSE <<d, i2 + 1>>

ParseValue(text, i) ==
    LET j == SkipSpace(text, i)
    IN  IF text[j] = "{"
          THEN IF text[SkipSpace(text, j + 1)] = "}"
                 THEN <<EmptyDict, SkipSpace(text, j + 1) + 1>>
                 ELSE ParseMembers(text, j + 1, EmptyDict)
        ELSE IF text[j] = "\""
          THEN LET x == ParseStr(text, j) IN <<[str |-> x[1]], x[2]>>
        ELSE ParseNumber(text, j)

\* json.load of a file that holds text.
JsonLoad(text) == ParseValue(text, 1)[1]

\* The report a loaded JSON value stands for, in the units of this module:
\* costs in micro-dollars, latencies in milliseconds.
Scaled(number, decimals) == number.m * Pow10(decimals - number.e)

AsReport(v) ==
    IF "error" \in DOMAIN v
      THEN [error        |-> Unpieces(v.error.str),
            generated_at |-> v.generated_at.str]
      ELSE [summary |->
              [total_requests           |-> Scaled(v.summary.total_requests, 0),
               total_cost_usd           |-> Scaled(v.summary.total_cost_usd, 6),
               total_tokens             |-> Scaled(v.summary.total_tokens, 0),
               total_input_tokens       |-> Scaled(v.summary.total_input_tokens, 0),
               total_output_tokens      |-> Scaled(v.summary.total_output_tokens, 0),
               average_latency_seconds  |-> Scaled(v.summary.average_latency_seconds, 3),
               average_cost_per_request |-> Scaled(v.summary.average_cost_per_request, 6)],
            model_breakdown |->
              [m \in DOMAIN v.model_breakdown |->
                 [requests     |-> Scaled(v.model_breakdown[m].requests, 0),
                  total_cost   |-> Scaled(v.model_breakdown[m].total_cost, 6),
                  total_tokens |-> Scaled(v.model_breakdown[m].total_tokens, 0)]],
            generated_at |-> v.generated_at.str]

\* The filename save_report and save_csv_report make up at time t.
GeneratedName(t, extension) == << <<"report_">> \o strftime(t) \o <<extension>> >>

\* ReportGenerator.save_report(report_data, filename), at time t; keys is the
\* order of the keys of report_data's model_breakdown.
save_report(report_data, keys, filename, t, fault) ==
    LET name     == IF filename = None THEN GeneratedName(t, ".json") ELSE filename
        filepath == PathJoin(output_dir, name)
    IN  WriteFile(filepath, JsonDump(report_data, keys), fault)

\* Mutant of line 142: the export of an empty history is written, whatever
\* the history passed.
save_csv_report_of_nothing(metrics_history_, filename, t, fault) ==
    LET name        == IF filename = None THEN GeneratedName(t, ".csv") ELSE filename
        filepath    == PathJoin(output_dir, name)
        csv_content == generate_csv_report(<<>>)
    IN  WriteFile(filepath, csv_content, fault)

\* ReportGenerator.save_csv_report(metrics_history, filename), at time t.
save_csv_report(metrics_history_, filename, t, fault) ==
    LET name        == IF filename = None THEN GeneratedName(t, ".csv") ELSE filename
        filepath    == PathJoin(output_dir, name)
        csv_content == generate_csv_report(metrics_history_)
    IN  WriteFile(filepath, csv_content, fault)

\* MetricsTracker.get_metrics_dict
get_metrics_dict(m) ==
    [latency_seconds    |-> m.latency_seconds,
     tokens             |-> [input  |-> m.input_tokens,
                             output |-> m.output_tokens,
                             total  |-> m.total_tokens],
     estimated_cost_usd |-> m.estimated_cost_usd,
     finish_reason      |-> m.finish_reason,
     timestamp          |-> m.timestamp]

----------------------------------------------------------------------------
\* One caller of the tracker and of the generator, and the storage (SpecStore).

\* The arguments of create_metrics under SpecStore: a model with a price, and
\* one whose name holds a line break.
StoreCalls ==
    { Args("gpt-4o-mini", 8, 1, 9, "stop"),
      Args("a\nb",        8, 1, 9, "a,b") }

\* The variables of the requests in parallel, which a sequential caller leaves alone.
parallel == <<pc, own_start, call, metrics, s_pc, s_loc, s_seen, summary>>

\* Where a persist call with this filename argument writes, now.
Target(filename, extension) ==
    Walk(PathJoin(output_dir,
                  IF filename = None THEN GeneratedName(now, extension) ELSE filename),
         <<>>)

\* MetricsTracker.calculate_cost(...)
CallCalculateCost(a) ==
    /\ overwrote' = FALSE
    /\ op' = "calculate_cost"
    /\ ret' = calculate_cost(a.model, a.input_tokens, a.output_tokens)
    /\ UNCHANGED <<now, start_time, metrics_history, parallel, dir_exists, files>>

\* Mutant of lines 38-40: calculate_latency sets start_time back to None.
CallCalculateLatencyResetting ==
    /\ overwrote' = FALSE
    /\ op' = "calculate_latency"
    /\ ret' = calculate_latency(start_time, now)
    /\ start_time' = None
    /\ UNCHANGED <<now, metrics_history, parallel, dir_exists, files>>

\* tracker.calculate_latency()
CallCalculateLatency ==
    /\ overwrote' = FALSE
    /\ op' = "calculate_latency"
    /\ ret' = calculate_latency(start_time, now)
    /\ UNCHANGED <<now, start_time, metrics_history, parallel, dir_exists, files>>

\* tracker.get_metrics_dict(metrics), of the record made last (main.py, line 115).
CallGetMetricsDict ==
    /\ metrics_history # <<>>
    /\ overwrote' = FALSE
    /\ op' = "get_metrics_dict"
    /\ ret' = get_metrics_dict(metrics_history[Len(metrics_history)])
    /\ UNCHANGED <<now, start_time, metrics_history, parallel, dir_exists, files>>

\* report_generator.save_report(generate_summary_report(history), filename)
CallSaveReport(filename, fault) ==
    /\ Room(Target(filename, ".json"))
    /\ LET report_data == generate_summary_report(metrics_history, now)
           w == save_report(report_data, KeyOrder(metrics_history, {}), filename, now, fault)
       IN  /\ files' = w.files
           /\ ret' = w.ret
           /\ overwrote' = w.overwrote
    /\ op' = "save_report"
    /\ UNCHANGED <<now, start_time, metrics_history, parallel, dir_exists>>

\* report_generator.save_csv_report(history, filename)
CallSaveCsvReport(filename, fault) ==
    /\ Room(Target(filename, ".csv"))
    /\ LET w == save_csv_report(metrics_history, filename, now, fault)
       IN  /\ files' = w.files
           /\ ret' = w.ret
           /\ overwrote' = w.overwrote
    /\ op' = "save_csv_report"
    /\ UNCHANGED <<now, start_time, metrics_history, parallel, dir_exists>>

\* ReportGenerator(): `self.output_dir.mkdir(parents=True, exist_ok=True)`.
NewReportGenerator ==
    /\ dir_exists' = TRUE
    /\ overwrote' = FALSE
    /\ op' = "ReportGenerator"
    /\ ret' = None
    /\ UNCHANGED <<now, start_time, metrics_history, parallel, files>>

\* The place at is in the directory d or below it.
Under(at, d) == Len(at) > Len(d) /\ SubSeq(at, 1, Len(d)) = d

\* Something other than this program removes the output directory and what is in it.
RemoveOutputDir ==
    /\ dir_exists
    /\ dir_exists' = FALSE
    /\ files' = [at \in { x \in DOMAIN files : ~Under(x, output_dir) } |-> files[at]]
    /\ overwrote' = FALSE
    /\ op' = "none"
    /\ ret' = None
    /\ UNCHANGED <<now, start_time, metrics_history, parallel>>

NextStore ==
    \/ CallStart
    \/ \E a \in StoreCalls : Len(metrics_history) < MaxRecords /\ CallCreateMetrics(a)
    \/ \E a \in StoreCalls : CallCalculateCost(a)
    \/ CallCalculateLatency
    \/ CallGetMetricsDict
    \/ CallGetSummaryStatistics
    \/ CallGenerateSummaryReport
    \/ CallGenerateCsvReport
    \/ \E filename \in Filenames, fault \in Faults : CallSaveReport(filename, fault)
    \/ \E filename \in Filenames, fault \in Faults : CallSaveCsvReport(filename, fault)
    \/ NewReportGenerator
    \/ RemoveOutputDir

SpecStore == Init /\ [][NextStore]_vars

\* The persist calls.
Persist == {"save_report", "save_csv_report"}

\* The last call was a persist call and it returned a path.
Persisted == op \in Persist /\ "path" \in DOMAIN ret

\* The place of the file a returned path names.
PlaceOf(filepath) == Walk(filepath, <<>>).at

----------------------------------------------------------------------------
\* The sums of costs of generate_summary_report as sums of floats (SpecFloat).
\* The report of the model above holds the sums of the costs as decimals;
\* the code adds binary floats, and the result depends on the order.

\* Costs as the code holds them: Python floats, IEEE 754 binary64.  A float
\* that is not negative is zero or [e, m]: m its 53 significand bits, the
\* leading one first, and e the exponent of the leading bit, so that its value
\* is the sum of m[i] * 2^(e + 1 - i).  The histories of SpecFloat have no
\* negative cost.
SignificandBits == 53

FloatZero == [e |-> 0, m |-> <<>>]

\* n zero bits, none for n < 0.
ZeroBits(n) == IF n > 0 THEN [i \in 1..n |-> 0] ELSE <<>>

RECURSIVE IntBits(_)
\* The binary digits of n > 0, leading digit first.
IntBits(n) == IF n = 0 THEN <<>> ELSE Append(IntBits(n \div 2), n % 2)

\* The bits of the number one greater, of the same length; all zero when the
\* bits were all one.
Increment(bits) ==
    [i \in 1..Len(bits) |->
       IF \A j \in (i + 1)..Len(bits) : bits[j] = 1 THEN 1 - bits[i] ELSE bits[i]]

\* The float nearest to the number whose bits start with a leading one of
\* exponent e, ties to even; sticky says that the number has more after bits.
RoundToFloat(bits, e, sticky) ==
    LET p     == SignificandBits
        all   == bits \o ZeroBits(p + 1 - Len(bits))
        top   == SubSeq(all, 1, p)
        half  == all[p + 1] = 1
        rest  == sticky \/ \E i \in (p + 2)..Len(all) : all[i] = 1
        up    == half /\ (rest \/ top[p] = 1)
        inc   == Increment(top)
    IN  IF ~up THEN [e |-> e, m |-> top]
        ELSE IF inc[1] = 1 THEN [e |-> e, m |-> inc]
        ELSE [e |-> e + 1, m |-> [inc EXCEPT ![1] = 1]]

RECURSIVE QuotientBits(_, _, _, _, _)
\* The quotient r / d for 0 <= r < d, continued after the bits found so far:
\* bits (from the leading one on) and the exponent e of the next bit, up to n
\* bits and whether a remainder is left.
QuotientBits(r, d, bits, e, n) ==
    IF Len(bits) >= n \/ r = 0 THEN [bits |-> bits, e |-> e, sticky |-> r # 0]
    ELSE LET bit == IF 2 * r >= d THEN 1 ELSE 0
         IN  QuotientBits(2 * r - bit * d, d,
                          IF bits = <<>> /\ bit = 0 THEN bits ELSE Append(bits, bit),
                          e - 1, n)

\* The quotient k / d of two integers, k > 0, to n significant bits: the bits,
\* the exponent of the leading one, and whether more bits follow.
Quotient(k, d, n) ==
    LET int == IntBits(k \div d)
        q   == QuotientBits(k % d, d, int, -1, n)
    IN  [bits   |-> q.bits,
         e      |-> IF int # <<>> THEN Len(int) - 1 ELSE q.e + Len(q.bits),
         sticky |-> q.sticky]

\* The float of a cost of k >= 0 micro-dollars, that is of round(x, 6) with
\* the value k / 10^6: the float nearest to it.
FloatOfMicro(k) ==
    IF k = 0 THEN FloatZero
    ELSE LET q == Quotient(k, 1000000, SignificandBits + 1)
         IN  RoundToFloat(q.bits, q.e, q.sticky)

\* The sum of two numbers of n bits each: the n + 1 bits of the sum.  There is
\* a carry into place i when a place after it makes one (both bits are one)
\* and every place between the two passes it on (one of its bits is one).
AddBits(x, y) ==
    LET n        == Len(x)
        X(i)     == IF i = 0 THEN 0 ELSE x[i]
        Y(i)     == IF i = 0 THEN 0 ELSE y[i]
        Carry(i) == \E j \in (i + 1)..n :
                       /\ x[j] + y[j] = 2
                       /\ \A l \in (i + 1)..(j - 1) : x[l] + y[l] = 1
    IN  [i \in 1..(n + 1) |->
           (X(i - 1) + Y(i - 1) + (IF Carry(i - 1) THEN 1 ELSE 0)) % 2]

\* a + b of two floats that are not negative: the exact sum, rounded.
FloatAdd(a, b) ==
    IF a = FloatZero THEN b
    ELSE IF b = FloatZero THEN a
    ELSE LET hi  == IF a.e >= b.e THEN a ELSE b
             lo  == IF a.e >= b.e THEN b ELSE a
             d   == hi.e - lo.e
             sum == AddBits(hi.m \o ZeroBits(d), ZeroBits(d) \o lo.m)
         IN  IF d > SignificandBits + 1 THEN hi
             ELSE IF sum[1] = 1 THEN RoundToFloat(sum, hi.e + 1, FALSE)
             ELSE RoundToFloat(Tail(sum), hi.e, FALSE)

RECURSIVE FloatSum(_, _)
\* sum(...) of floats, from the left, from start on.
FloatSum(floats, start) ==
    IF floats = <<>> THEN start
    ELSE FloatSum(Tail(floats), FloatAdd(start, floats[1]))

\* Whether the float a is less than the quotient k / d, k > 0.
FloatLess(a, k, d) ==
    LET q    == Quotient(k, d, SignificandBits + 1)
        mine == a.m \o <<0>>
        its  == q.bits \o ZeroBits(SignificandBits + 1 - Len(q.bits))
        Diff == { i \in 1..(SignificandBits + 1) : mine[i] # its[i] }
    IN  IF a = FloatZero THEN TRUE
        ELSE IF a.e # q.e THEN a.e < q.e
        ELSE IF Diff = {} THEN q.sticky
        ELSE LET i == CHOOSE j \in Diff : \A l \in Diff : j <= l
             IN  mine[i] < its[i]

\* Whether round(a, 6) is the cost of k micro-dollars, k > 0: a is nearer to
\* k / 10^6 than to the next multiples of 10^-6.
RoundsToMicro(a, k) ==
    /\ ~FloatLess(a, 2 * k - 1, 2000000)
    /\ FloatLess(a, 2 * k + 1, 2000000)

\* The costs of the records of history, as floats.
FloatCosts(history) == [i \in 1..Len(history) |-> FloatOfMicro(history[i].estimated_cost_usd)]

RECURSIVE OfModel(_, _)
\* The records of history that have this model, in their order.
OfModel(history, model) ==
    IF history = <<>> THEN <<>>
    ELSE (IF history[1].model = model THEN <<history[1]>> ELSE <<>>)
           \o OfModel(Tail(history), model)

\* generate_summary_report, line 36:
\* total_cost = sum(m.estimated_cost_usd for m in metrics_history)
total_cost(history) == FloatSum(FloatCosts(history), FloatZero)

\* generate_summary_report, lines 44-52: model_stats[model]["total_cost"] at
\* the end of the loop, 0 and each cost of the model added to it in turn.
model_total_cost(history, model) == FloatSum(FloatCosts(OfModel(history, model)), FloatZero)

\* The calls of create_metrics under SpecFloat: 1000 input and 500 output
\* tokens with each of the three models that have a price, which cost
\* 0.0075, 0.00045 and 0.00125 dollars.
FloatCalls ==
    { Args("gpt-4o",        1000, 500, 1500, "stop"),
      Args("gpt-4o-mini",   1000, 500, 1500, "stop"),
      Args("gpt-3.5-turbo", 1000, 500, 1500, "length") }

NextFloat ==
    \/ CallStart
    \/ \E a \in FloatCalls : Len(metrics_history) < MaxFloatRecords /\ CallCreateMetrics(a)
    \/ CallGetSummaryStatistics
    \/ CallGenerateSummaryReport

SpecFloat == Init /\ [][NextFloat]_vars

----------------------------------------------------------------------------
\* The handler of POST /ask on the shared tracker (SpecAsk).  The handler is
\* an `async def` that never awaits, so the event loop runs the handlers of
\* two requests one after the other; a handler is taken in two steps here, up
\* to the call of the completion API and from its return on.

\* The questions of the requests, as characters: an empty one, one of white
\* space only, and one with text.
Questions == { <<>>, <<" ", "\n">>, <<" ", "h", "i">> }

RECURSIVE LStrip(_)
\* str.lstrip(): the text without the white space it starts with.
LStrip(text) ==
    IF text # <<>> /\ text[1] \in {" ", "\n", "\t"} THEN LStrip(Tail(text)) ELSE text

RECURSIVE RStrip(_)
\* str.rstrip(): the text without the white space it ends with.
RStrip(text) ==
    IF text # <<>> /\ text[Len(text)] \in {" ", "\n", "\t"}
      THEN RStrip(SubSeq(text, 1, Len(text) - 1)) ELSE text

\* str.strip()
strip(text) == RStrip(LStrip(text))

\* What client.chat.completions.create does: it raises, or it returns a
\* response with a message content (a str, or None as with a refusal or a tool
\* call), a finish reason and a usage.
Responses ==
    {[raises |-> TRUE]}
      \cup { [raises |-> FALSE, content |-> c, usage |-> a] :
               c \in {None, <<"4", "2">>}, a \in Calls }

\* MetricsResponse(question=..., answer=answer, ...): `answer: str` is a
\* required str field, pydantic raises a ValidationError for None.
MetricsResponseValid(answer) == answer # None

\* No handler is between its two steps.
LoopFree == \A q \in Requests : pc[q] # "calling"

\* ask_question, lines 71-97: the two validations, metrics_tracker.start(),
\* and the call of the completion API.
AskBegin(r, question, api_key_set) ==
    /\ pc[r] = "idle"
    /\ FirstCallInOrder(r)
    /\ LoopFree
    /\ IF strip(question) = <<>>
         THEN /\ pc' = [pc EXCEPT ![r] = "http400"]
              /\ UNCHANGED <<start_time, own_start>>
       ELSE IF ~api_key_set
         THEN /\ pc' = [pc EXCEPT ![r] = "http500"]
              /\ UNCHANGED <<start_time, own_start>>
       ELSE /\ start_time' = <<now>>
            /\ own_start' = [own_start EXCEPT ![r] = <<now>>]
            /\ pc' = [pc EXCEPT ![r] = "calling"]
    /\ UNCHANGED <<now, metrics_history, call, metrics,
                   s_pc, s_loc, s_seen, summary, op, ret, dir_exists, files, overwrote>>

\* ask_question, lines 92-122: the completion API raises or returns; on a
\* return the record is made and appended, then the response object is built,
\* and an exception of any of these is turned into HTTP 500.
AskReturn(r, response) ==
    /\ pc[r] = "calling"
    /\ IF response.raises
         THEN /\ pc' = [pc EXCEPT ![r] = "http500"]
              /\ UNCHANGED <<metrics_history, call, metrics>>
         ELSE LET answer == response.content
                  m      == RequestMetrics(response.usage, start_time, now)
              IN  /\ metrics_history' = AppendMetrics(metrics_history, m)
                  /\ metrics' = [metrics EXCEPT ![r] = <<m>>]
                  /\ call' = [call EXCEPT ![r] = <<response.usage>>]
                  /\ pc' = [pc EXCEPT ![r] =
                              IF MetricsResponseValid(answer) THEN "ok" ELSE "http500"]
    /\ UNCHANGED <<now, start_time, own_start, s_pc, s_loc, s_seen, summary, op, ret,
                   dir_exists, files, overwrote>>

NextAsk ==
    \/ Tick
    \/ \E r \in Requests, question \in Questions, api_key_set \in BOOLEAN :
         AskBegin(r, question, api_key_set)
    \/ \E r \in Requests, response \in Responses : AskReturn(r, response)

SpecAsk == Init /\ [][NextAsk]_vars

----------------------------------------------------------------------------
\* Properties of the shared tracker under parallel requests (Spec).

\* The requests whose create_metrics call has returned.
Done == { r \in Requests : pc[r] = "done" }

RECURSIVE SumCallTokens(_)
\* The sum of the total_tokens arguments of the calls of requests 1..n that returned.
SumCallTokens(n) ==
    IF n = 0 THEN 0
    ELSE (IF pc[n] = "done" THEN call[n][1].total_tokens ELSE 0) + SumCallTokens(n - 1)

\* The call of get_summary_statistics has returned and each of its passes saw
\* the history as it is now.
SummaryOnCurrent ==
    /\ s_pc = "done"
    /\ \A i \in 1..Len(s_seen) : s_seen[i] = Len(metrics_history)

\* The clock reading a timestamp was made from.
FromIso(ts) == FromDigits(Tail(ts))

IsPrefix(s, t) == Len(s) <= Len(t) /\ SubSeq(t, 1, Len(s)) = s

\* C1: after N create_metrics calls by parallel requests, in any interleaving,
\* the history holds N records, and a summary taken of it reports
\* total_requests = N and total_tokens = the sum of the N total_tokens arguments.
C1_NoRecordLost ==
    /\ Len(metrics_history) = Cardinality(Done)
    /\ SummaryOnCurrent =>
         IF Done = {} THEN DOMAIN summary = {}
         ELSE /\ summary.total_requests = Cardinality(Done)
              /\ summary.total_tokens = SumCallTokens(NumRequests)

\* Two requests were in flight together (the one that called first was recorded
\* second), passed different arguments, and the summary counts both.
C1_Witness ==
    /\ SummaryOnCurrent
    /\ Cardinality(Done) >= 2
    /\ own_start[1] # <<>>
    /\ metrics_history[1] = metrics[2][1]
    /\ call[1] # call[2]
    /\ summary.total_requests = 2

\* C2: the latency in a request's record is measured from that request's own
\* start() call, whatever other requests did in between.
C2_OwnTimer ==
    \A r \in Requests :
        (pc[r] = "done" /\ own_start[r] # <<>>) =>
            metrics[r][1].latency_seconds =
                RoundDiv(FromIso(metrics[r][1].timestamp) - own_start[r][1], TicksPerMs)

\* C3: every step leaves the history a prefix of the new history; only a
\* create_metrics call changes it, by one record, put at the end.
C3_AppendOnly ==
    [][ /\ IsPrefix(metrics_history, metrics_history')
        /\ metrics_history' # metrics_history =>
             /\ Len(metrics_history') = Len(metrics_history) + 1
             /\ \E r \in Requests :
                  /\ pc[r] # "done"
                  /\ pc'[r] = "done"
                  /\ metrics_history'[Len(metrics_history')] = metrics'[r][1]
                  /\ \A q \in Requests \ {r} : pc'[q] = pc[q]
             /\ s_pc' = s_pc ]_vars

\* Two records are in the history, appended by two requests, while a summary
\* call was reading it.
C3_Witness ==
    /\ Len(metrics_history) = 2
    /\ Cardinality(Done) = 2
    /\ s_pc \in {"cost", "tokens", "latency", "return"}

\* C4: what a summary call returns is computed from one prefix of the history.
C4_ConsistentSnapshot ==
    (s_pc = "done" /\ DOMAIN summary # {}) =>
        \E k \in 1..Len(metrics_history) :
            LET h == SubSeq(metrics_history, 1, k)
            IN  /\ summary.total_requests = k
                /\ summary.total_tokens = SumOver(h, "total_tokens")
                /\ summary.total_cost_usd = SumOver(h, "estimated_cost_usd")
                /\ summary.average_latency_seconds
                     = RoundDiv(SumOver(h, "latency_seconds"), k)

\* C6: a record made for a request that started no timer has latency 0.
C6_NoTimerNoLatency ==
    \A r \in Requests :
        (pc[r] = "done" /\ own_start[r] = <<>>) => metrics[r][1].latency_seconds = 0

\* C7: a summary call returns {} exactly when it found the history empty;
\* otherwise its total_requests is the length it read, at least 1, and that is
\* what the latency sum is divided by; on a history that did not change under
\* it, that is the length of the history.
C7_EmptyIffNoHistory ==
    /\ s_pc \in {"cost", "tokens", "latency", "return"} => s_loc.total_requests >= 1
    /\ s_pc = "done" =>
         /\ (DOMAIN summary = {}) <=> (s_seen[1] = 0)
         /\ DOMAIN summary # {} =>
              /\ summary.total_requests = s_seen[2]
              /\ summary.total_requests >= 1
         /\ SummaryOnCurrent =>
              /\ (DOMAIN summary = {}) <=> (metrics_history = <<>>)
              /\ DOMAIN summary # {} => summary.total_requests = Len(metrics_history)

\* A summary call returned {} on the empty history.
C7_Witness ==
    /\ s_pc = "done"
    /\ DOMAIN summary = {}
    /\ metrics_history = <<>>
    /\ s_seen = <<0>>

----------------------------------------------------------------------------
\* Properties of the methods, one call after the other (SpecSeq).

\* The request whose record stands at place i of the history has a model
\* with a price.
Priced(i) == metrics_history[i].model \in {"gpt-4o", "gpt-4o-mini", "gpt-3.5-turbo"}

\* The cost of record i before rounding, in nano-dollars.
ExactCost(i) ==
    metrics_history[i].input_tokens * PRICING[metrics_history[i].model].input
      + metrics_history[i].output_tokens * PRICING[metrics_history[i].model].output

\* C5: the cost of every record of a priced model is the micro-dollar amount
\* nearest to input/1000*input_rate + output/1000*output_rate (7500 and 450 for
\* 1000 input and 500 output tokens of gpt-4o and gpt-4o-mini); that of any
\* other model is 0; every call returns a record.
C5_Price ==
    /\ \A i \in 1..Len(metrics_history) :
         LET m == metrics_history[i]
             c == m.estimated_cost_usd
         IN  /\ Priced(i) =>
                  /\ 1000 * c - ExactCost(i) <= 500
                  /\ ExactCost(i) - 1000 * c <= 500
             /\ ~Priced(i) => c = 0
             /\ (m.input_tokens = 1000 /\ m.output_tokens = 500) =>
                  c = (CASE m.model = "gpt-4o"      -> 7500
                         [] m.model = "gpt-4o-mini" -> 450
                         [] OTHER                   -> 0)
    /\ op = "create_metrics" =>
         /\ ret = metrics_history[Len(metrics_history)]
         /\ ret.estimated_cost_usd \in Int

\* A rounded cost of a priced model and the cost of an unpriced one, with
\* token counts that are not 0, are in the history.
C5_Witness ==
    /\ op = "create_metrics"
    /\ \E i, j \in 1..Len(metrics_history) :
         /\ Priced(i)
         /\ ExactCost(i) # 1000 * metrics_history[i].estimated_cost_usd
         /\ ~Priced(j)
         /\ metrics_history[j].input_tokens > 0
         /\ metrics_history[j].output_tokens > 0

\* C8, as stated: generate_summary_report of an empty history returns the keys
\* error and generated_at only, the error being "no data available"; of any
\* other history, the keys summary, model_breakdown and generated_at only.
C8_AsStated ==
    op = "generate_summary_report" =>
        IF metrics_history = <<>>
          THEN /\ DOMAIN ret = {"error", "generated_at"}
               /\ ret.error = "no data available"
          ELSE DOMAIN ret = {"summary", "model_breakdown", "generated_at"}

\* C8, amended: the same, the error being "No metrics data available", and
\* generated_at the text of a clock reading.
C8_ErrorMarker ==
    op = "generate_summary_report" =>
        /\ IF metrics_history = <<>>
             THEN /\ DOMAIN ret = {"error", "generated_at"}
                  /\ ret.error = "No metrics data available"
             ELSE DOMAIN ret = {"summary", "model_breakdown", "generated_at"}
        /\ \E t \in 0..now : ret.generated_at = isoformat(t)

\* generate_summary_report was called on the empty history.
C8_Witness ==
    /\ op = "generate_summary_report"
    /\ metrics_history = <<>>
    /\ "error" \in DOMAIN ret

\* The records of model m, in history order.
RecordsOf(m) == SelectSeq(metrics_history, LAMBDA x : x.model = m)

\* C9: the model_breakdown of a history that is not empty has one entry for
\* each model in the history and no other, and the entry of m holds the number
\* of m's records, the sum of their total_tokens and the sum of their costs.
C9_ModelBreakdown ==
    (op = "generate_summary_report" /\ metrics_history # <<>>) =>
        LET b == ret.model_breakdown
        IN  /\ DOMAIN b = { metrics_history[i].model : i \in 1..Len(metrics_history) }
            /\ \A m \in DOMAIN b :
                 /\ DOMAIN b[m] = {"requests", "total_cost", "total_tokens"}
                 /\ b[m].requests = Len(RecordsOf(m))
                 /\ b[m].total_tokens = SumOver(RecordsOf(m), "total_tokens")
                 /\ b[m].total_cost = SumOver(RecordsOf(m), "estimated_cost_usd")

\* The report of two records of one model, of different costs and totals.
C9_Witness ==
    /\ op = "generate_summary_report"
    /\ Len(metrics_history) = 2
    /\ metrics_history[1].model = metrics_history[2].model
    /\ metrics_history[1].estimated_cost_usd # metrics_history[2].estimated_cost_usd
    /\ ret.model_breakdown[metrics_history[1].model].requests = 2

RECURSIVE Split(_, _)
\* text.split(sep)
Split(text, sep) ==
    IF \A i \in 1..Len(text) : text[i] # sep THEN <<text>>
    ELSE LET k == CHOOSE i \in 1..Len(text) :
                    text[i] = sep /\ \A j \in 1..(i - 1) : text[j] # sep
         IN  <<SubSeq(text, 1, k - 1)>> \o Split(SubSeq(text, k + 1, Len(text)), sep)

HeaderLine ==
    <<"timestamp", ",", "model", ",", "input_tokens", ",", "output_tokens", ",",
      "total_tokens", ",", "latency_seconds", ",", "estimated_cost_usd", ",",
      "finish_reason">>

\* C10: generate_csv_report returns "No data available" for an empty history,
\* and else n+1 lines: the header, then for each record, in history order, its
\* 8 fields joined by commas, the timestamp first and the model second.
C10_Tabular ==
    op = "generate_csv_report" =>
        IF metrics_history = <<>> THEN ret = <<"No data available">>
        ELSE LET lines == Split(ret, "\n")
             IN  /\ Len(lines) = Len(metrics_history) + 1
                 /\ lines[1] = HeaderLine
                 /\ \A i \in 1..Len(metrics_history) :
                      /\ Len(CsvFields(metrics_history[i])) = 8
                      /\ lines[i + 1] = Join(CsvFields(metrics_history[i]), ",")

\* C13: create_metrics returns a record that holds the arguments as passed (the
\* total even when it is not the sum of the two counts, and negative counts),
\* the cost calculate_cost gives for them and a latency of 0 or more, and that
\* record is the one now at the end of the history, which is otherwise as before.
\* (The clock of the model does not go back between two readings.)
C13_RecordVerbatim ==
    [][ \A a \in SeqCalls :
          CallCreateMetrics(a) =>
            /\ ret'.model = a.model
            /\ ret'.input_tokens = a.input_tokens
            /\ ret'.output_tokens = a.output_tokens
            /\ ret'.total_tokens = a.total_tokens
            /\ ret'.finish_reason = a.finish_reason
            /\ ret'.estimated_cost_usd
                 = calculate_cost(a.model, a.input_tokens, a.output_tokens)
            /\ ret'.latency_seconds >= 0
            /\ Len(metrics_history') = Len(metrics_history) + 1
            /\ metrics_history'[Len(metrics_history')] = ret'
            /\ SubSeq(metrics_history', 1, Len(metrics_history)) = metrics_history ]_vars

\* create_metrics returned a record with a negative count and a total that is
\* not the sum of its counts, after a timer had run for a millisecond or more.
C13_Witness ==
    /\ op = "create_metrics"
    /\ ret.input_tokens < 0
    /\ ret.total_tokens # ret.input_tokens + ret.output_tokens
    /\ ret.latency_seconds > 0
    /\ Len(metrics_history) = 2
    /\ metrics_history[2] = ret

RECURSIVE SumEntries(_, _, _)
\* The sum of a field over the entries of a breakdown for the models of ms.
SumEntries(b, ms, field) ==
    IF ms = {} THEN 0
    ELSE LET m == CHOOSE x \in ms : TRUE
         IN  b[m][field] + SumEntries(b, ms \ {m}, field)

\* sum(entry["total_cost"] for entry in model_breakdown.values()): the floats
\* of the entries, added in the order of the dict's keys.
BreakdownTotalCost(history) ==
    LET keys == KeyOrder(history, {})
    IN  FloatSum([i \in 1..Len(keys) |-> model_total_cost(history, keys[i])], FloatZero)

\* The counts of the breakdown of the report r add up to those of its summary.
CountsConserved(r) ==
    LET b == r.model_breakdown
    IN  /\ SumEntries(b, DOMAIN b, "requests") = r.summary.total_requests
        /\ SumEntries(b, DOMAIN b, "total_tokens") = r.summary.total_tokens

\* C17 as the spec states it: in the report of a history that is not empty,
\* the requests of the breakdown's entries add up to summary.total_requests,
\* their total_tokens to summary.total_tokens, and their total_cost to the sum
\* of the records' costs before it is rounded.
C17_AsStated ==
    (op = "generate_summary_report" /\ metrics_history # <<>>) =>
        /\ CountsConserved(ret)
        /\ BreakdownTotalCost(metrics_history) = total_cost(metrics_history)

\* C17: in the report of a history that is not empty, the requests of the
\* breakdown's entries add up to summary.total_requests and their
\* total_tokens to summary.total_tokens; the sum of their total_cost and the
\* unrounded sum of the records' costs are the same up to the rounding of
\* float addition: both round to the same 6 decimals, the decimal sum of the
\* costs.
C17_Conservation ==
    (op = "generate_summary_report" /\ metrics_history # <<>>) =>
        LET b == ret.model_breakdown
            k == SumOver(metrics_history, "estimated_cost_usd")
        IN  /\ CountsConserved(ret)
            /\ SumEntries(b, DOMAIN b, "total_cost") = k
            /\ RoundsToMicro(BreakdownTotalCost(metrics_history), k)
            /\ RoundsToMicro(total_cost(metrics_history), k)

\* The report of three records of two models, for which the float sum of the
\* breakdown's costs is not the float sum of the records' costs.
C17_Witness ==
    /\ op = "generate_summary_report"
    /\ Len(metrics_history) = 3
    /\ Cardinality(DOMAIN ret.model_breakdown) = 2
    /\ BreakdownTotalCost(metrics_history) # total_cost(metrics_history)

\* What get_summary_statistics returned (s) and what generate_summary_report
\* returned (r) for one history agree.
Agree(s, r) ==
    /\ (DOMAIN s = {}) <=> ("error" \in DOMAIN r)
    /\ DOMAIN s # {} =>
         /\ s.total_requests = r.summary.total_requests
         /\ s.total_tokens = r.summary.total_tokens
         /\ s.total_cost_usd = r.summary.total_cost_usd
         /\ s.average_latency_seconds = r.summary.average_latency_seconds
         /\ s.models_used = DOMAIN r.model_breakdown

\* C18: on one history, get_summary_statistics returns {} exactly when
\* generate_summary_report returns the error report, and else the two have the
\* same total_requests, total_tokens, total_cost_usd and
\* average_latency_seconds, and models_used is the key set of model_breakdown.
C18_SummariesAgree ==
    /\ op = "get_summary_statistics" =>
         Agree(ret, generate_summary_report(metrics_history, now))
    /\ op = "generate_summary_report" =>
         Agree(get_summary_statistics(metrics_history), ret)

\* get_summary_statistics returned the statistics of two records of two
\* models, the second one at least with a latency.
C18_Witness ==
    /\ op = "get_summary_statistics"
    /\ Len(metrics_history) = 2
    /\ Cardinality(ret.models_used) = 2
    /\ metrics_history[2].latency_seconds > 0
    /\ ret.total_cost_usd > 0

----------------------------------------------------------------------------
\* Properties of the persist calls and of the read-only calls (SpecStore).

\* C11: the path a persist call returns names a file in the output directory
\* or below it, whatever the filename passed: a generated name, a name with a
\* parent-directory part, an absolute name.
C11_UnderOutputDir ==
    Persisted => Under(PlaceOf(ret.path), output_dir)

\* The number of a loaded JSON value is an int (no fraction part written).
IsInt(number) == ~number.float

\* A loaded report has ints where the report has counts and floats where it
\* has costs and latencies.
NumbersKept(v) ==
    "error" \notin DOMAIN v =>
        /\ IsInt(v.summary.total_requests)
        /\ IsInt(v.summary.total_tokens)
        /\ IsInt(v.summary.total_input_tokens)
        /\ IsInt(v.summary.total_output_tokens)
        /\ ~IsInt(v.summary.total_cost_usd)
        /\ ~IsInt(v.summary.average_latency_seconds)
        /\ ~IsInt(v.summary.average_cost_per_request)
        /\ \A m \in DOMAIN v.model_breakdown :
             /\ IsInt(v.model_breakdown[m].requests)
             /\ IsInt(v.model_breakdown[m].total_tokens)
             /\ ~IsInt(v.model_breakdown[m].total_cost)

\* What is read at the path a persist call has just returned is what the call
\* was given: the text of the export, or a JSON text that loads to the report.
ReadBack ==
    /\ (Persisted /\ op = "save_csv_report") =>
         files[PlaceOf(ret.path)] = generate_csv_report(metrics_history)
    /\ (Persisted /\ op = "save_report") =>
         LET v == JsonLoad(files[PlaceOf(ret.path)])
         IN  /\ AsReport(v) = generate_summary_report(metrics_history, now)
             /\ NumbersKept(v)

\* C12: after a persist call returned a path, reading that path yields the
\* content the call was given, and no call other than a persist call changes
\* what a file that stays in storage holds.
C12_RoundTrip ==
    /\ []ReadBack
    /\ [][ op' \notin Persist =>
             \A at \in DOMAIN files' : at \in DOMAIN files /\ files'[at] = files[at] ]_vars

\* A report of a record whose model and finish reason hold a line break and a
\* comma was saved and the path returned.
C12_Witness ==
    /\ Persisted
    /\ op = "save_report"
    /\ metrics_history # <<>>
    /\ metrics_history[1].model = "a\nb"
    /\ files[PlaceOf(ret.path)] # <<>>

\* C14: a persist call makes the output directory when it is absent at the
\* time of the call, so it does not fail for want of the directory, also when
\* the directory was removed after the generator was constructed.
C14_PersistMakesDir ==
    op \in Persist => /\ ret # Raised("FileNotFoundError")
                      /\ (Persisted /\ Under(PlaceOf(ret.path), output_dir)) => dir_exists

\* What the persist call o writes for the history as it is: the JSON text of
\* its report, or its export.
Content(o) ==
    IF o = "save_report"
      THEN JsonDump(generate_summary_report(metrics_history, now),
                    KeyOrder(metrics_history, {}))
      ELSE generate_csv_report(metrics_history)

\* C15: a persist call that returns a path whose file was there before leaves
\* exactly the content of this call in the file, and the files of storage are
\* the same set as before, each other one with the content it had: nothing is
\* appended, no second copy is made.
C15_Overwrite ==
    [][ (/\ op' \in Persist
         /\ "path" \in DOMAIN ret'
         /\ PlaceOf(ret'.path) \in DOMAIN files) =>
            files' = [files EXCEPT ![PlaceOf(ret'.path)] = Content(op')] ]_vars

\* A persist call has replaced the content of a file by a different one, and
\* storage holds as many files as before.
C15_Witness ==
    /\ Persisted
    /\ overwrote
    /\ Cardinality(DOMAIN files) = 1
    /\ files[PlaceOf(ret.path)] # <<>>

\* The calls of the tracker and the generator other than the persist calls,
\* by what they return: a number, a text, None, or a dict or record.
NumberCalls == {"calculate_cost", "calculate_latency"}
TextCalls == {"generate_csv_report"}
NoneCalls == {"start", "ReportGenerator"}
DictCalls ==
    {"create_metrics", "get_metrics_dict", "get_summary_statistics",
     "generate_summary_report"}

\* C16: a persist call that meets a storage failure raises it to the caller:
\* a persist call returns a path only when the file holds the content, and
\* else it raises, and then the history and the timer are as they were and no
\* second attempt has written the content (a file that changed is the empty
\* one the call had opened); no other call of the tracker or the generator
\* ends in an error.
C16_WriteFailure ==
    [][ /\ op' \in Persist =>
             \/ /\ "path" \in DOMAIN ret'
                /\ PlaceOf(ret'.path) \in DOMAIN files'
                /\ files'[PlaceOf(ret'.path)] = Content(op')
             \/ /\ "raised" \in DOMAIN ret'
                /\ metrics_history' = metrics_history
                /\ start_time' = start_time
                /\ \A at \in DOMAIN files' :
                     \/ at \in DOMAIN files /\ files'[at] = files[at]
                     \/ files'[at] = <<>>
        /\ op' \in NumberCalls => ret' \in Int
        /\ op' \in TextCalls => ret' \in Seq(STRING)
        /\ op' \in NoneCalls => ret' = None
        /\ op' \in DictCalls => "raised" \notin DOMAIN ret' ]_vars

\* A persist call raised the failure of the storage while the history held a
\* record and the timer was running; the file it had opened is empty.
C16_Witness ==
    /\ op = "save_report"
    /\ ret = Raised("OSError")
    /\ metrics_history # <<>>
    /\ start_time # None
    /\ \E at \in DOMAIN files : files[at] = <<>>

\* The calls that only read.
ReadOnlyCalls ==
    {"calculate_cost", "calculate_latency", "get_metrics_dict",
     "get_summary_statistics", "generate_summary_report", "generate_csv_report",
     "save_report", "save_csv_report"}

\* C19: calculate_cost, calculate_latency, get_metrics_dict,
\* get_summary_statistics, generate_summary_report, generate_csv_report and
\* the persist calls leave the history and the timer's start as they were, and
\* start leaves the history as it was.
C19_ReadOnly ==
    [][ /\ op' \in ReadOnlyCalls =>
             metrics_history' = metrics_history /\ start_time' = start_time
        /\ op' = "start" => metrics_history' = metrics_history ]_vars

\* An export was saved while the history held a record and the timer was
\* running; the state after the persist call still has both.
C19_Witness ==
    /\ op = "save_csv_report"
    /\ "path" \in DOMAIN ret
    /\ Len(metrics_history) = 1
    /\ start_time # None
    /\ files # EmptyDict

----------------------------------------------------------------------------
\* Properties of the handler of POST /ask (SpecAsk).

\* The requests the handler answered with a MetricsResponse.
Successful == { r \in Requests : pc[r] = "ok" }

\* C20: only successful requests are recorded.  A request that a validation
\* rejected has started no timer and made no record, and when no handler is
\* running the history has as many records as requests were answered
\* successfully.
C20_OnlySuccessful ==
    /\ \A r \in Requests :
         pc[r] \in {"http400", "http500"} /\ own_start[r] = <<>> => metrics[r] = <<>>
    /\ LoopFree => Len(metrics_history) = Cardinality(Successful)

====
